---- MODULE Spec2Model ----
(***************************************************************************)
(* cargo2nix, src/main.rs: the Graph Builder (ResolvedPackage::new), the   *)
(* Optionality Tracker (mark_required, activate), the Simplifier           *)
(* (simplify_optionality) and the Synthesizer (Optionality::to_expr),      *)
(* driven by generate_cargo_nix / write_to_file.                           *)
(*                                                                         *)
(* The Resolution Gateway (cargo's resolve_ws_with_opts) is external: its  *)
(* answers are inputs.  Every per-root answer is a sub-resolution of the   *)
(* full resolution, so the unwrap()s of lines 309 and 313 never panic.     *)
(* The checksum field of ResolvedPackage (lines 442-467) is not modelled.  *)
(***************************************************************************)
EXTENDS Integers, Sequences, FiniteSets, TLC

VARIABLES
    pc,           \* position in main / write_to_file / generate_cargo_nix
    mode,         \* "none" | "stdout" | "file": the output chosen by main's arguments
    target,       \* the file at `path`: "absent" | "old" | "new"
    tempfile,     \* the NamedTempFile of write_to_file: "none" | "empty" | "written"
    stdout,       \* what has been printed to stdout, in order
    gateway,      \* the Resolution Gateway's answers, fixed for one run
    rpkgs,        \* rpkgs_by_id: package id -> ResolvedPackage
    done,         \* root packages whose passes are all finished
    cur,          \* the root package of the running loop body, or "none"
    left,         \* root features of `cur` not yet activated
    n_root_pkgs,  \* root_pkgs.len(), the argument of simplify_optionality
    input,        \* the value a pure function was applied to
    plan,         \* the synthesized expressions handed to the template
    raw,          \* the raw dependency declarations ResolvedPackage::new folds
    bi            \* how many of `raw` the for_each of ResolvedPackage::new has seen

vars == <<pc, mode, target, tempfile, stdout, gateway, rpkgs, done, cur, left,
          n_root_pkgs, input, plan, raw, bi>>

(***************************************************************************)
(* Bounds of the model.                                                    *)
(***************************************************************************)
MaxDecls == 3
MaxRootCount == 2

(***************************************************************************)
(* Orders.  BTreeMap / BTreeSet iterate in Ord order: byte-wise for &str,  *)
(* derive(Ord) for cargo's dependency Kind (Normal, Development, Build),   *)
(* lexicographic for tuples.                                               *)
(***************************************************************************)
StrOrder == <<"A", "B", "C", "D", "E", "R", "T", "default", "extra", "f1", "f2">>

StrRank(s) == CHOOSE i \in 1..Len(StrOrder) : StrOrder[i] = s

KindRank(k) == CASE k = "Normal" -> 0 [] k = "Development" -> 1 [] k = "Build" -> 2

StrLess(a, b) == StrRank(a) < StrRank(b)

PairLess(a, b) == StrLess(a[1], b[1]) \/ (a[1] = b[1] /\ StrLess(a[2], b[2]))

EdgeLess(a, b) == StrLess(a[1], b[1]) \/ (a[1] = b[1] /\ KindRank(a[2]) < KindRank(b[2]))

Less(ord, a, b) ==
    CASE ord = "str"  -> StrLess(a, b)
      [] ord = "pair" -> PairLess(a, b)
      [] ord = "edge" -> EdgeLess(a, b)

RECURSIVE SortBy(_, _)
SortBy(S, ord) ==
    IF S = {} THEN <<>>
    ELSE LET m == CHOOSE x \in S : \A y \in S \ {x} : Less(ord, x, y)
         IN  <<m>> \o SortBy(S \ {m}, ord)

(***************************************************************************)
(* Optionality (lines 383-390) and its Default (lines 489-496).            *)
(***************************************************************************)
Required == [tag |-> "Required", required_by_pkgs |-> {}, activated_by_features |-> {}]

Optional(req, act) ==
    [tag |-> "Optional", required_by_pkgs |-> req, activated_by_features |-> act]

Default == Optional({}, {})

(***************************************************************************)
(* Optionality::required_by (lines 511-518).                               *)
(***************************************************************************)
required_by_assigns(o, pkg_name) ==
    IF o.tag = "Optional"
    THEN [o EXCEPT !.required_by_pkgs = {pkg_name}]
    ELSE o

required_by(o, pkg_name) ==
    IF o.tag = "Optional"
    THEN [o EXCEPT !.required_by_pkgs = @ \cup {pkg_name}]
    ELSE o

(***************************************************************************)
(* Optionality::activated_by (lines 499-509).                              *)
(***************************************************************************)
activated_by_unchecked(o, root_feature) ==
    IF o.tag = "Optional"
    THEN [o EXCEPT !.activated_by_features = @ \cup {root_feature}]
    ELSE o

activated_by(o, root_feature) ==
    IF o.tag = "Optional" /\ root_feature[1] \notin o.required_by_pkgs
    THEN [o EXCEPT !.activated_by_features = @ \cup {root_feature}]
    ELSE o

(***************************************************************************)
(* The workspace the runs are about: root packages A and B, and the full   *)
(* resolution (all features, dev-deps included) of lines 169-179.          *)
(*   A: feature "extra"; depends on D, on R (optional), on T (which has no *)
(*      library target) and, as a dev-dependency, on E.                    *)
(*   B: depends on D, declared once for unix and once for windows.         *)
(*   D: features "f1" and "f2"; depends on E.                              *)
(***************************************************************************)
Roots == {"A", "B"}

Pkgs == {"A", "B", "D", "E", "R", "T"}

Decl(t, k, p, opt) == [target |-> t, kind |-> k, platform |-> p, optional |-> opt]

Dependencies(p) ==
    CASE p = "A" -> << Decl("D", "Normal", "none", FALSE),
                       Decl("E", "Development", "none", FALSE),
                       Decl("R", "Normal", "none", TRUE),
                       Decl("T", "Normal", "none", FALSE) >>
      [] p = "B" -> << Decl("D", "Normal", "unix", FALSE),
                       Decl("D", "Normal", "windows", FALSE) >>
      [] p = "D" -> << Decl("E", "Normal", "none", FALSE) >>
      [] OTHER   -> << >>

DeclaredFeatures(p) ==
    CASE p = "A" -> {"extra"}
      [] p = "D" -> {"f1", "f2"}
      [] OTHER   -> {}

HasLib(p) == p # "T"

(***************************************************************************)
(* all_features (lines 257-273): declared features, then the names of the  *)
(* optional dependencies, then "default" unless it is declared.            *)
(***************************************************************************)
all_features(p) ==
    SortBy(DeclaredFeatures(p), "str")
    \o SelectSeq([i \in 1..Len(Dependencies(p)) |->
                    IF Dependencies(p)[i].optional
                    THEN Dependencies(p)[i].target ELSE "none"],
                 LAMBDA n : n # "none")
    \o (IF "default" \in DeclaredFeatures(p) THEN <<>> ELSE <<"default">>)

SeqRange(s) == {s[i] : i \in 1..Len(s)}

(***************************************************************************)
(* ResolvedPackage::new (lines 393-432): the filter_map drops declarations *)
(* whose target has no library target; the for_each merges the others per  *)
(* (target, kind) key.                                                     *)
(***************************************************************************)
NoPlatforms == [some |-> FALSE, list |-> <<>>]

SomePlatforms(l) == [some |-> TRUE, list |-> l]

insert_decl_keeps_restriction(deps, dep) ==
    LET key  == <<dep.target, dep.kind>>
        rdep == IF key \in DOMAIN deps THEN deps[key]
                ELSE [extern_name |-> dep.target, pkg |-> dep.target,
                      optionality |-> Default, platforms |-> SomePlatforms(<<>>)]
        merged == IF dep.platform # "none" /\ rdep.platforms.some
                  THEN SomePlatforms(Append(rdep.platforms.list, dep.platform))
                  ELSE rdep.platforms
    IN  (key :> [rdep EXCEPT !.platforms = merged]) @@ deps

insert_decl(deps, dep) ==
    LET key  == <<dep.target, dep.kind>>
        rdep == IF key \in DOMAIN deps THEN deps[key]
                ELSE [extern_name |-> dep.target, pkg |-> dep.target,
                      optionality |-> Default, platforms |-> SomePlatforms(<<>>)]
        merged == CASE dep.platform # "none" /\ rdep.platforms.some ->
                         SomePlatforms(Append(rdep.platforms.list, dep.platform))
                    [] dep.platform = "none" -> NoPlatforms
                    [] OTHER -> rdep.platforms
    IN  (key :> [rdep EXCEPT !.platforms = merged]) @@ deps

with_lib(decls) == SelectSeq(decls, LAMBDA d : HasLib(d.target))

RECURSIVE fold_decls(_, _)
fold_decls(deps, decls) ==
    IF decls = <<>> THEN deps
    ELSE fold_decls(insert_decl(deps, Head(decls)), Tail(decls))

EmptyDeps == [k \in {} |-> Default]

ResolvedPackage_new(p) ==
    [deps     |-> fold_decls(EmptyDeps, with_lib(Dependencies(p))),
     features |-> [f \in DeclaredFeatures(p) |-> Default]]

(***************************************************************************)
(* A Resolution, as mark_required and activate read it (lines 308-321,     *)
(* 350-363): the package ids reached, the features active on each, and the *)
(* ids each one depends on.                                                *)
(***************************************************************************)
Resolution(feats, deps) == [feats |-> feats, deps |-> deps]

ResIter(res) == {x[1] : x \in res.feats \cup res.deps}

ResFeatures(res, id) == {x[2] : x \in {y \in res.feats : y[1] = id}}

ResDeps(res, id) == {x[2] : x \in {y \in res.deps : y[1] = id}}

(***************************************************************************)
(* ResolvedPackage::iter_deps_with_id_mut (lines 471-478): the keys in the *)
(* range (id, Normal) ..= (id, Build), which spans Development.            *)
(***************************************************************************)
iter_deps_with_id_mut(rpkg, id) ==
    {k \in DOMAIN rpkg.deps :
        /\ k[1] = id
        /\ KindRank("Normal") <= KindRank(k[2])
        /\ KindRank(k[2]) <= KindRank("Build")}

(***************************************************************************)
(* ResolvedPackage::iter_optionality_mut (lines 480-487): the edges that   *)
(* are not Development, in key order, then the features, in key order.     *)
(***************************************************************************)
DepSlot(k) == [slot |-> "dep", key |-> k]

FeatureSlot(f) == [slot |-> "feature", key |-> f]

iter_optionality_mut(rpkg) ==
    LET keys == SortBy({k \in DOMAIN rpkg.deps : k[2] # "Development"}, "edge")
        fs   == SortBy(DOMAIN rpkg.features, "str")
    IN  [i \in 1..Len(keys) |-> DepSlot(keys[i])]
        \o [i \in 1..Len(fs) |-> FeatureSlot(fs[i])]

Get(rpkg, s) ==
    IF s.slot = "dep" THEN rpkg.deps[s.key].optionality ELSE rpkg.features[s.key]

Set(rpkg, s, o) ==
    IF s.slot = "dep"
    THEN [rpkg EXCEPT !.deps[s.key].optionality = o]
    ELSE [rpkg EXCEPT !.features[s.key] = o]

(***************************************************************************)
(* mark_required (lines 289-323), given the baseline resolution.           *)
(***************************************************************************)
mark_required(rs, root_pkg, res) ==
    [id \in DOMAIN rs |->
        IF id \notin ResIter(res) THEN rs[id]
        ELSE LET rpkg    == rs[id]
                 touched == UNION {iter_deps_with_id_mut(rpkg, dep_id) :
                                      dep_id \in ResDeps(res, id)}
             IN  [deps |-> [k \in DOMAIN rpkg.deps |->
                      IF k \in touched
                      THEN [rpkg.deps[k] EXCEPT
                              !.optionality = required_by(@, root_pkg)]
                      ELSE rpkg.deps[k]],
                  features |-> [f \in DOMAIN rpkg.features |->
                      IF f \in ResFeatures(res, id)
                      THEN required_by(rpkg.features[f], root_pkg)
                      ELSE rpkg.features[f]]]]

(***************************************************************************)
(* activate (lines 325-365), given the resolution of one root feature.     *)
(***************************************************************************)
activate(rs, pkg, feature, res) ==
    LET root_feature == <<pkg, feature>>
    IN  [id \in DOMAIN rs |->
          IF id \notin ResIter(res) THEN rs[id]
          ELSE LET rpkg    == rs[id]
                   touched == UNION {iter_deps_with_id_mut(rpkg, dep_id) :
                                        dep_id \in ResDeps(res, id)}
               IN  [deps |-> [k \in DOMAIN rpkg.deps |->
                        IF k \in touched
                        THEN [rpkg.deps[k] EXCEPT
                                !.optionality = activated_by(@, root_feature)]
                        ELSE rpkg.deps[k]],
                    features |-> [f \in DOMAIN rpkg.features |->
                        IF f \in ResFeatures(res, id)
                        THEN activated_by(rpkg.features[f], root_feature)
                        ELSE rpkg.features[f]]]]

(***************************************************************************)
(* all_eq (lines 579-591).                                                 *)
(***************************************************************************)
all_eq_inverted(s) ==
    IF Len(s) = 0 THEN TRUE
    ELSE \E i \in 2..Len(s) : s[i] # s[1]

all_eq(s) ==
    IF Len(s) = 0 THEN TRUE
    ELSE \A i \in 2..Len(s) : s[i] = s[1]

(***************************************************************************)
(* simplify_optionality (lines 225-255), one package at a time:            *)
(*   rule 1 (lines 230-241), rule 2 (243-247), rule 3 (249-253).           *)
(***************************************************************************)
RECURSIVE promote_first_only(_, _, _)
promote_first_only(rpkg, slots, n) ==
    IF slots = <<>> THEN rpkg
    ELSE LET o == Get(rpkg, Head(slots))
         IN  IF o.tag = "Optional" /\ Cardinality(o.required_by_pkgs) = n
             THEN Set(rpkg, Head(slots), Required)
             ELSE promote_first_only(rpkg, Tail(slots), n)

RECURSIVE promote_off_by_one(_, _, _)
promote_off_by_one(rpkg, slots, n) ==
    IF slots = <<>> THEN rpkg
    ELSE LET o == Get(rpkg, Head(slots))
         IN  promote_off_by_one(
                 IF o.tag = "Optional" /\ Cardinality(o.required_by_pkgs) = n + 1
                 THEN Set(rpkg, Head(slots), Required)
                 ELSE rpkg,
                 Tail(slots), n)

RECURSIVE promote_at_most(_, _, _)
promote_at_most(rpkg, slots, n) ==
    IF slots = <<>> THEN rpkg
    ELSE LET o == Get(rpkg, Head(slots))
         IN  promote_at_most(
                 IF o.tag = "Optional" /\ Cardinality(o.required_by_pkgs) <= n
                 THEN Set(rpkg, Head(slots), Required)
                 ELSE rpkg,
                 Tail(slots), n)

RECURSIVE promote(_, _, _)
promote(rpkg, slots, n) ==
    IF slots = <<>> THEN rpkg
    ELSE LET o == Get(rpkg, Head(slots))
         IN  promote(IF o.tag = "Optional" /\ Cardinality(o.required_by_pkgs) = n
                     THEN Set(rpkg, Head(slots), Required)
                     ELSE rpkg,
                     Tail(slots), n)

force_build_kind(rpkg) ==
    [rpkg EXCEPT !.deps = [k \in DOMAIN @ |->
        IF k[2] = "Build" THEN [@[k] EXCEPT !.optionality = Required] ELSE @[k]]]

force_dev(rpkg) ==
    [rpkg EXCEPT !.deps = [k \in DOMAIN @ |->
        IF k[2] = "Development" THEN [@[k] EXCEPT !.optionality = Required] ELSE @[k]]]

RECURSIVE set_all(_, _, _)
set_all(rpkg, slots, o) ==
    IF slots = <<>> THEN rpkg
    ELSE set_all(Set(rpkg, Head(slots), o), Tail(slots), o)

collapse(rpkg) ==
    LET slots == iter_optionality_mut(rpkg)
    IN  IF all_eq([i \in 1..Len(slots) |-> Get(rpkg, slots[i])])
        THEN set_all(rpkg, slots, Required)
        ELSE rpkg

simplify_pkg(rpkg, n) ==
    collapse(force_dev(promote(rpkg, iter_optionality_mut(rpkg), n)))

simplify_optionality(rs, n) == [id \in DOMAIN rs |-> simplify_pkg(rs[id], n)]

(***************************************************************************)
(* BoolExpr (mod expr): True, Single(atom) and the disjunction built by    *)
(* BoolExpr::ors from a list, which may be empty.                          *)
(***************************************************************************)
True == [tag |-> "True"]

Single(atom) == [tag |-> "Single", atom |-> atom]

ors(items) == [tag |-> "Or", items |-> items]

(***************************************************************************)
(* display_root_feature (lines 548-550), the {:?} of a string without      *)
(* characters to escape, and Optionality::to_expr (lines 520-545).         *)
(***************************************************************************)
display_root_feature_swapped(root_feature) == root_feature[2] \o "/" \o root_feature[1]

display_root_feature(root_feature) == root_feature[1] \o "/" \o root_feature[2]

Debug(s) == "\"" \o s \o "\""

to_expr_drops_required_by(o, root_features_var) ==
    IF o.tag = "Required" THEN True
    ELSE LET afs == SortBy(o.activated_by_features, "pair")
         IN  ors([i \in 1..Len(afs) |->
                   Single(root_features_var \o " ? " \o Debug(display_root_feature(afs[i])))])

to_expr(o, root_features_var) ==
    IF o.tag = "Required" THEN True
    ELSE LET afs == SortBy(o.activated_by_features, "pair")
             rbp == SortBy(o.required_by_pkgs, "str")
         IN  ors([i \in 1..Len(afs) |->
                   Single(root_features_var \o " ? " \o Debug(display_root_feature(afs[i])))]
                 \o
                 [i \in 1..Len(rbp) |->
                   Single(root_features_var \o " ? " \o Debug(rbp[i]))])

(***************************************************************************)
(* BuildPlan::from_items (mod template): per package, the expression of    *)
(* every feature and of every dependency edge.                             *)
(***************************************************************************)
BuildPlan_from_items(rs, root_features_var) ==
    [id \in DOMAIN rs |->
        [features |-> [f \in DOMAIN rs[id].features |->
                          to_expr(rs[id].features[f], root_features_var)],
         deps     |-> [k \in DOMAIN rs[id].deps |->
                          to_expr(rs[id].deps[k].optionality, root_features_var)]]]

(***************************************************************************)
(* The Gateway's answers.  For root A: nothing beyond A itself; A's        *)
(* unconditional dependencies; those with feature "extra", the optional    *)
(* dependency R and D's features switched on; or the optional dependency R *)
(* alone.  For root B: nothing beyond B itself, or B's dependencies.       *)
(***************************************************************************)
Canned(r) ==
    IF r = "A"
    THEN { Resolution({}, {}),
           Resolution({}, {<<"A", "D">>, <<"A", "E">>, <<"A", "T">>, <<"D", "E">>}),
           Resolution({<<"A", "extra">>, <<"D", "f1">>, <<"D", "f2">>},
                      {<<"A", "D">>, <<"A", "R">>, <<"D", "E">>}),
           Resolution({}, {<<"A", "R">>}) }
    ELSE { Resolution({}, {}),
           Resolution({}, {<<"B", "D">>, <<"D", "E">>}) }

RootFeatures == {<<r, f>> : r \in Roots, f \in UNION {SeqRange(all_features(q)) : q \in Roots}}
                \cap UNION {{<<r, f>> : f \in SeqRange(all_features(r))} : r \in Roots}

Gateways ==
    {[base |-> b, feat |-> f] :
        b \in {x \in [Roots -> UNION {Canned(r) : r \in Roots}] :
                  \A r \in Roots : x[r] \in Canned(r)},
        f \in {x \in [RootFeatures -> UNION {Canned(r) : r \in Roots}] :
                  \A rf \in RootFeatures : x[rf] \in Canned(rf[1])}}

RootFeaturesVars == {"rootFeatures", "root_features"}

NoPkgs == [id \in {} |-> Default]

(***************************************************************************)
(* State after start-up: nothing resolved, nothing printed.                *)
(***************************************************************************)
Init ==
    /\ pc = "main"
    /\ mode = "none"
    /\ target \in {"absent", "old"}
    /\ tempfile = "none"
    /\ stdout = <<>>
    /\ gateway \in Gateways
    /\ rpkgs = NoPkgs
    /\ done = {}
    /\ cur = "none"
    /\ left = {}
    /\ n_root_pkgs = 0
    /\ input = NoPkgs
    /\ plan = NoPkgs
    /\ raw = <<>>
    /\ bi = 0

(***************************************************************************)
(* main (lines 40-57) with --stdout: generate_cargo_nix(stdout).           *)
(***************************************************************************)
MainStdout ==
    /\ pc = "main"
    /\ mode' = "stdout"
    /\ pc' = "resolve"
    /\ UNCHANGED <<target, tempfile, stdout, gateway, rpkgs, done, cur, left,
                   n_root_pkgs, input, plan, raw, bi>>

WriteToFile_creates_target ==
    /\ pc = "main"
    /\ mode' = "file"
    /\ target' = "new"
    /\ tempfile' = "none"
    /\ pc' = "resolve"
    /\ UNCHANGED <<stdout, gateway, rpkgs, done, cur, left, n_root_pkgs, input,
                   plan, raw, bi>>

(***************************************************************************)
(* main with --file: write_to_file up to the creation of the temporary     *)
(* file (lines 107-150).  An existing file is checked for its version and  *)
(* the user is asked before it is overwritten.                             *)
(***************************************************************************)
WriteToFile ==
    /\ pc = "main"
    /\ mode' = "file"
    /\ \/ /\ target = "absent"
          /\ tempfile' = "empty"
          /\ pc' = "resolve"
          /\ UNCHANGED stdout
       \/ /\ target # "absent"
          /\ stdout' = stdout \o <<"Version requirement", "Please upgrade">>
          /\ pc' = "returned"
          /\ UNCHANGED tempfile
       \/ /\ target # "absent"
          /\ \E line \in {"yes", "no"} :
                IF line # "yes"
                THEN /\ stdout' = stdout \o <<"Version matches", "overwrite?", "aborted!">>
                     /\ pc' = "returned"
                     /\ UNCHANGED tempfile
                ELSE /\ stdout' = stdout \o <<"Version matches", "overwrite?">>
                     /\ tempfile' = "empty"
                     /\ pc' = "resolve"
    /\ UNCHANGED <<target, gateway, rpkgs, done, cur, left, n_root_pkgs, input,
                   plan, raw, bi>>

(***************************************************************************)
(* generate_cargo_nix, lines 160-202: the full resolution succeeds and one *)
(* ResolvedPackage is built per package of it.                             *)
(***************************************************************************)
FullResolve ==
    /\ pc = "resolve"
    /\ rpkgs' = [p \in Pkgs |-> ResolvedPackage_new(p)]
    /\ n_root_pkgs' = Cardinality(Roots)
    /\ pc' = "track"
    /\ UNCHANGED <<mode, target, tempfile, stdout, gateway, done, cur, left,
                   input, plan, raw, bi>>

(***************************************************************************)
(* A resolve_ws_with_opts(..).unwrap() that fails (lines 179, 304, 347):   *)
(* the panic unwinds, dropping the temporary file.                         *)
(***************************************************************************)
ResolveFails ==
    /\ \/ pc = "resolve"
       \/ pc = "track" /\ done # Roots
    /\ pc' = "panicked"
    /\ tempfile' = "none"
    /\ UNCHANGED <<mode, target, stdout, gateway, rpkgs, done, cur, left,
                   n_root_pkgs, input, plan, raw, bi>>

(***************************************************************************)
(* The loop of lines 203-209.  The order of ws.members() and the order of  *)
(* all_features are inputs: any root not yet done may come next, and any   *)
(* root feature of it not yet activated.                                   *)
(***************************************************************************)
MarkRequired(r) ==
    /\ pc = "track"
    /\ cur = "none"
    /\ r \in Roots \ done
    /\ rpkgs' = mark_required(rpkgs, r, gateway.base[r])
    /\ cur' = r
    /\ left' = SeqRange(all_features(r))
    /\ UNCHANGED <<pc, mode, target, tempfile, stdout, gateway, done,
                   n_root_pkgs, input, plan, raw, bi>>

Activate(r, f) ==
    /\ pc = "track"
    /\ cur = r
    /\ f \in left
    /\ rpkgs' = activate(rpkgs, r, f, gateway.feat[<<r, f>>])
    /\ left' = left \ {f}
    /\ IF left' = {}
       THEN cur' = "none" /\ done' = done \cup {r}
       ELSE UNCHANGED <<cur, done>>
    /\ UNCHANGED <<pc, mode, target, tempfile, stdout, gateway,
                   n_root_pkgs, input, plan, raw, bi>>

(***************************************************************************)
(* Line 211.  `input` keeps the map as the Tracker left it.                *)
(***************************************************************************)
Simplify ==
    /\ pc = "track"
    /\ done = Roots
    /\ input' = rpkgs
    /\ rpkgs' = simplify_optionality(rpkgs, n_root_pkgs)
    /\ pc' = "render"
    /\ UNCHANGED <<mode, target, tempfile, stdout, gateway, done, cur, left,
                   n_root_pkgs, plan, raw, bi>>

(***************************************************************************)
(* Lines 212-222: the plan is rendered and written to `out`, which is      *)
(* stdout or the temporary file.                                           *)
(***************************************************************************)
Render ==
    /\ pc = "render"
    /\ \E v \in RootFeaturesVars : plan' = BuildPlan_from_items(rpkgs, v)
    /\ IF mode = "stdout"
       THEN /\ stdout' = Append(stdout, "Cargo.nix")
            /\ pc' = "done"
            /\ UNCHANGED tempfile
       ELSE /\ tempfile' = "written"
            /\ pc' = "persist"
            /\ UNCHANGED stdout
    /\ UNCHANGED <<mode, target, gateway, rpkgs, done, cur, left,
                   n_root_pkgs, input, raw, bi>>

(***************************************************************************)
(* write_to_file, lines 154-156: the temporary file replaces the target.   *)
(***************************************************************************)
Persist ==
    /\ pc = "persist"
    /\ target' = "new"
    /\ tempfile' = "none"
    /\ pc' = "done"
    /\ UNCHANGED <<mode, stdout, gateway, rpkgs, done, cur, left,
                   n_root_pkgs, input, plan, raw, bi>>

Next ==
    \/ MainStdout
    \/ WriteToFile
    \/ FullResolve
    \/ ResolveFails
    \/ \E r \in Roots : MarkRequired(r)
    \/ \E r \in Roots : \E f \in SeqRange(all_features(r)) : Activate(r, f)
    \/ Simplify
    \/ Render
    \/ Persist

Spec == Init /\ [][Next]_vars

(***************************************************************************)
(* simplify_optionality and to_expr as functions of their arguments: one   *)
(* package P with an edge onto D, a dev-dependency edge onto E and a       *)
(* feature "f1", each holding any value the Tracker can have accumulated   *)
(* over n_root_pkgs root packages (a root is in requiredByPkgs, or one of  *)
(* its features is in activatedByFeatures, or neither).                    *)
(***************************************************************************)
RootNames(n) == {StrOrder[i] : i \in 1..n}

Accumulated(n) ==
    UNION {{Optional(req, {<<r, "extra">> : r \in act}) :
                act \in SUBSET (RootNames(n) \ req)} :
           req \in SUBSET RootNames(n)}

Edge(t, o) ==
    [extern_name |-> t, pkg |-> t, optionality |-> o, platforms |-> NoPlatforms]

PackageP(o1, o2, o3) ==
    [P \in {"P"} |->
        [deps     |-> (<<"D", "Normal">> :> Edge("D", o1))
                      @@ (<<"E", "Development">> :> Edge("E", o2)),
         features |-> [f \in {"f1"} |-> o3]]]

InitSimplify ==
    /\ pc = "s_input"
    /\ n_root_pkgs \in 1..MaxRootCount
    /\ rpkgs \in {PackageP(o1, o2, o3) :
                    o1 \in Accumulated(n_root_pkgs),
                    o2 \in Accumulated(n_root_pkgs),
                    o3 \in Accumulated(n_root_pkgs)}
    /\ input = rpkgs
    /\ mode = "none"
    /\ target = "absent"
    /\ tempfile = "none"
    /\ stdout = <<>>
    /\ gateway = <<>>
    /\ done = {}
    /\ cur = "none"
    /\ left = {}
    /\ plan = NoPkgs
    /\ raw = <<>>
    /\ bi = 0

(* simplify_optionality applied to the input, and then to its own result. *)
SimplifyOnce ==
    /\ pc = "s_input"
    /\ input' = rpkgs
    /\ rpkgs' = simplify_optionality(rpkgs, n_root_pkgs)
    /\ pc' = "s_once"
    /\ UNCHANGED <<mode, target, tempfile, stdout, gateway, done, cur, left,
                   n_root_pkgs, plan, raw, bi>>

SimplifyAgain ==
    /\ pc = "s_once"
    /\ input' = rpkgs
    /\ rpkgs' = simplify_optionality(rpkgs, n_root_pkgs)
    /\ pc' = "s_twice"
    /\ UNCHANGED <<mode, target, tempfile, stdout, gateway, done, cur, left,
                   n_root_pkgs, plan, raw, bi>>

(* to_expr applied to every Optionality, accumulated or simplified. *)
Synthesize ==
    /\ pc \in {"s_input", "s_once"}
    /\ \E v \in RootFeaturesVars : plan' = BuildPlan_from_items(rpkgs, v)
    /\ pc' = "s_expr"
    /\ UNCHANGED <<mode, target, tempfile, stdout, gateway, rpkgs, done, cur,
                   left, n_root_pkgs, input, raw, bi>>

NextSimplify == SimplifyOnce \/ SimplifyAgain \/ Synthesize

SpecSimplify == InitSimplify /\ [][NextSimplify]_vars

(***************************************************************************)
(* ResolvedPackage::new as a function of the declarations it meets: the    *)
(* declarations of one package P, in any order, onto D (Normal or Build,   *)
(* for any platform or none) and onto T, which has no library target.      *)
(***************************************************************************)
DeclValues ==
    {Decl("D", k, pl, FALSE) : k \in {"Normal", "Build"}, pl \in {"none", "unix", "windows"}}
    \cup {Decl("T", "Normal", "none", FALSE)}

InitBuild ==
    /\ pc = "b_fold"
    /\ raw \in UNION {[1..n -> DeclValues] : n \in 0..MaxDecls}
    /\ bi = 0
    /\ rpkgs = [P \in {"P"} |-> [deps |-> EmptyDeps, features |-> <<>>]]
    /\ input = NoPkgs
    /\ mode = "none"
    /\ target = "absent"
    /\ tempfile = "none"
    /\ stdout = <<>>
    /\ gateway = <<>>
    /\ done = {}
    /\ cur = "none"
    /\ left = {}
    /\ n_root_pkgs = 0
    /\ plan = NoPkgs

(* Lines 401-415: no library target, no extern name: the declaration is dropped. *)
DropDecl ==
    /\ pc = "b_fold"
    /\ bi < Len(raw)
    /\ ~HasLib(raw[bi + 1].target)
    /\ bi' = bi + 1
    /\ UNCHANGED <<pc, mode, target, tempfile, stdout, gateway, rpkgs, done, cur,
                   left, n_root_pkgs, input, plan, raw>>

(* Lines 417-432: the declaration is merged into the edge of its key. *)
MergeDecl ==
    /\ pc = "b_fold"
    /\ bi < Len(raw)
    /\ HasLib(raw[bi + 1].target)
    /\ rpkgs' = [rpkgs EXCEPT !["P"].deps = insert_decl(@, raw[bi + 1])]
    /\ bi' = bi + 1
    /\ UNCHANGED <<pc, mode, target, tempfile, stdout, gateway, done, cur,
                   left, n_root_pkgs, input, plan, raw>>

(* Lines 434-441: every declaration has been met. *)
Built ==
    /\ pc = "b_fold"
    /\ bi = Len(raw)
    /\ pc' = "b_built"
    /\ UNCHANGED <<mode, target, tempfile, stdout, gateway, rpkgs, done, cur,
                   left, n_root_pkgs, input, plan, raw, bi>>

NextBuild == DropDecl \/ MergeDecl \/ Built

SpecBuild == InitBuild /\ [][NextBuild]_vars

(***************************************************************************)
(* What the claims are stated with.                                        *)
(***************************************************************************)
Tracked == pc \in {"render", "persist", "done"}

ReachedFeature(res, id, f) == <<id, f>> \in res.feats

ReachedEdge(res, id, k) == <<id, k[1]>> \in res.deps

BasesDone == done \cup ({cur} \ {"none"})

FeaturesDone == {rf \in RootFeatures : rf[1] \in done \/ (rf[1] = cur /\ rf[2] \notin left)}

(* The accumulation of a set of passes, written without any order. *)
AccFeature(id, f, bases, feats) ==
    Optional({r \in bases : ReachedFeature(gateway.base[r], id, f)},
             {rf \in feats : /\ ReachedFeature(gateway.feat[rf], id, f)
                             /\ ~ReachedFeature(gateway.base[rf[1]], id, f)})

AccEdge(id, k, bases, feats) ==
    Optional({r \in bases : ReachedEdge(gateway.base[r], id, k)},
             {rf \in feats : /\ ReachedEdge(gateway.feat[rf], id, k)
                             /\ ~ReachedEdge(gateway.base[rf[1]], id, k)})

IsAccumulation(rs, bases, feats) ==
    \A id \in DOMAIN rs :
        /\ \A f \in DOMAIN rs[id].features :
              rs[id].features[f] = AccFeature(id, f, bases, feats)
        /\ \A k \in DOMAIN rs[id].deps :
              rs[id].deps[k].optionality = AccEdge(id, k, bases, feats)

EdgeOpt(rs, id, t, kind) == rs[id].deps[<<t, kind>>].optionality

(***************************************************************************)
(* C1.  Order independence of the Tracker: whatever order the roots and    *)
(* each root's features were processed in (baseline first), every feature  *)
(* and edge holds the accumulation of the passes done so far, a value that *)
(* depends on the Gateway's answers alone; so the final sets are the same  *)
(* for every order, and so is the value simplify_optionality makes of them.*)
(***************************************************************************)
C1_OrderIndependence ==
    /\ pc = "track" => IsAccumulation(rpkgs, BasesDone, FeaturesDone)
    /\ Tracked => /\ IsAccumulation(input, Roots, RootFeatures)
                  /\ rpkgs = simplify_optionality(input, Cardinality(Roots))

C1_Witness ==
    /\ Tracked
    /\ EdgeOpt(input, "D", "E", "Normal") = Optional({"A", "B"}, {})
    /\ EdgeOpt(input, "A", "D", "Normal") = Optional({"A"}, {})
    /\ EdgeOpt(input, "A", "R", "Normal") = Optional({}, {<<"A", "R">>, <<"A", "extra">>})
    /\ EdgeOpt(rpkgs, "D", "E", "Normal") = Required

(***************************************************************************)
(* C2.  Idempotence of simplification: simplify_optionality applied to its *)
(* own result changes no feature's and no edge's Optionality.              *)
(***************************************************************************)
C2_SimplifyIdempotent == pc = "s_twice" => rpkgs = input

C2_Witness ==
    /\ pc = "s_twice"
    /\ n_root_pkgs = 2
    /\ EdgeOpt(rpkgs, "P", "D", "Normal") = Required
    /\ rpkgs["P"].features["f1"] = Optional({"A"}, {<<"B", "extra">>})

(***************************************************************************)
(* C5.  Development forcing: after simplify_optionality every edge of kind *)
(* Development is Required, whatever it had accumulated.                   *)
(***************************************************************************)
C5_DevelopmentRequired ==
    pc \in {"s_once", "s_twice"} =>
        \A id \in DOMAIN rpkgs : \A k \in DOMAIN rpkgs[id].deps :
            k[2] = "Development" => rpkgs[id].deps[k].optionality = Required

C5_Witness ==
    /\ pc = "s_once"
    /\ EdgeOpt(input, "P", "E", "Development") = Default
    /\ EdgeOpt(rpkgs, "P", "E", "Development") = Required
    /\ EdgeOpt(rpkgs, "P", "D", "Normal") # Required

(***************************************************************************)
(* C7.  Synthesizer mapping: to_expr gives True for Required, and for      *)
(* Optional a disjunction of Single atoms, one per pair of                 *)
(* activatedByFeatures asking for "<root-package>/<feature>" and one per   *)
(* name of requiredByPkgs asking for "<root-package>"; nothing else, so no *)
(* conjunction and no negation.                                            *)
(***************************************************************************)
FeatureAtom(v, rf) == v \o " ? \"" \o rf[1] \o "/" \o rf[2] \o "\""

PkgAtom(v, r) == v \o " ? \"" \o r \o "\""

IsMapped(o, e, v) ==
    IF o.tag = "Required" THEN e = True
    ELSE /\ e.tag = "Or"
         /\ Len(e.items) = Cardinality(o.activated_by_features)
                           + Cardinality(o.required_by_pkgs)
         /\ \A i \in 1..Len(e.items) : e.items[i].tag = "Single"
         /\ {e.items[i].atom : i \in 1..Len(e.items)}
               = {FeatureAtom(v, rf) : rf \in o.activated_by_features}
                 \cup {PkgAtom(v, r) : r \in o.required_by_pkgs}

C7_SynthesizerMapping ==
    pc = "s_expr" =>
        \E v \in RootFeaturesVars :
            \A id \in DOMAIN rpkgs :
                /\ \A f \in DOMAIN rpkgs[id].features :
                      IsMapped(rpkgs[id].features[f], plan[id].features[f], v)
                /\ \A k \in DOMAIN rpkgs[id].deps :
                      IsMapped(rpkgs[id].deps[k].optionality, plan[id].deps[k], v)

C7_Witness ==
    /\ pc = "s_expr"
    /\ rpkgs["P"].features["f1"] = Optional({"A"}, {<<"B", "extra">>})
    /\ plan["P"].features["f1"]
          = ors(<<Single("rootFeatures ? \"B/extra\""), Single("rootFeatures ? \"A\"")>>)
    /\ EdgeOpt(rpkgs, "P", "D", "Normal") = Required
    /\ plan["P"].deps[<<"D", "Normal">>] = True
    /\ plan["P"].deps[<<"E", "Development">>] = True

(***************************************************************************)
(* C3.  Universal-requirement promotion, as claimed: when both A's and B's *)
(* baseline resolutions reach D through a non-optional Normal edge (A and  *)
(* B may each depend on D directly), every such edge onto D is Required    *)
(* in the end.                                                             *)
(***************************************************************************)
BaselineEdgesOnto(t, r) ==
    {x \in {<<id, k>> : id \in Pkgs, k \in {<<t, "Normal">>}} :
        /\ x[2] \in DOMAIN rpkgs[x[1]].deps
        /\ ReachedEdge(gateway.base[r], x[1], x[2])
        /\ \E i \in 1..Len(Dependencies(x[1])) :
              /\ Dependencies(x[1])[i].target = t
              /\ Dependencies(x[1])[i].kind = "Normal"
              /\ ~Dependencies(x[1])[i].optional}

Rendered == pc \in {"persist", "done"}

OnlyExtraEnablesR ==
    /\ ReachedEdge(gateway.feat[<<"A", "extra">>], "A", <<"R", "Normal">>)
    /\ \A r \in Roots : \A id \in Pkgs :
          ~ReachedEdge(gateway.base[r], id, <<"R", "Normal">>)
    /\ \A rf \in RootFeatures \ {<<"A", "extra">>} : \A id \in Pkgs :
          ~ReachedEdge(gateway.feat[rf], id, <<"R", "Normal">>)

OnlyAtomIsAExtra ==
    \E v \in RootFeaturesVars :
        plan["A"].deps[<<"R", "Normal">>] = ors(<<Single(FeatureAtom(v, <<"A", "extra">>))>>)

OtherItemDiffers(rs, id, k) ==
    \/ \E f \in DOMAIN rs[id].features :
          rs[id].features[f] # rs[id].deps[k].optionality
    \/ \E j \in DOMAIN rs[id].deps :
          /\ j[2] # "Development"
          /\ rs[id].deps[j].optionality # rs[id].deps[k].optionality

TwoFeaturesOnePair(id) ==
    /\ Cardinality(DOMAIN input[id].features) = 2
    /\ \E rf \in RootFeatures :
          \A f \in DOMAIN input[id].features :
              input[id].features[f] = Optional({}, {rf})

C6_AsClaimed ==
    Tracked =>
        \A id \in DOMAIN rpkgs :
            TwoFeaturesOnePair(id) =>
                \A f \in DOMAIN rpkgs[id].features : rpkgs[id].features[f] = Required

(***************************************************************************)
(* C6, amended.  The same, provided every non-development edge of the      *)
(* package holds that same Optionality; and every edge of another package  *)
(* onto this one then holds what rules 1-2 and the collapse of that other  *)
(* package alone give it.                                                  *)
(***************************************************************************)
AfterRules12(o, kind) ==
    IF kind = "Development" \/ Cardinality(o.required_by_pkgs) = Cardinality(Roots)
    THEN Required ELSE o

Homogeneous(id) ==
    \A x, y \in {AfterRules12(input[id].features[f], "feature") :
                    f \in DOMAIN input[id].features}
                \cup {AfterRules12(input[id].deps[k].optionality, k[2]) :
                        k \in {j \in DOMAIN input[id].deps : j[2] # "Development"}} :
        x = y

OwnCondition(q, k) ==
    IF k[2] # "Development" /\ Homogeneous(q) THEN Required
    ELSE AfterRules12(input[q].deps[k].optionality, k[2])

EdgesAgree(id) ==
    \A k \in DOMAIN input[id].deps :
        k[2] # "Development" =>
            \A f \in DOMAIN input[id].features :
                input[id].deps[k].optionality = input[id].features[f]

C6_HomogeneousCollapse ==
    Tracked =>
        \A id \in DOMAIN rpkgs :
            (TwoFeaturesOnePair(id) /\ EdgesAgree(id)) =>
                /\ \A f \in DOMAIN rpkgs[id].features : rpkgs[id].features[f] = Required
                /\ \A q \in DOMAIN rpkgs \ {id} : \A k \in DOMAIN rpkgs[q].deps :
                      k[1] = id => rpkgs[q].deps[k].optionality = OwnCondition(q, k)

C6_Witness ==
    /\ Tracked
    /\ TwoFeaturesOnePair("D")
    /\ EdgeOpt(input, "D", "E", "Normal") = Optional({}, {<<"A", "extra">>})
    /\ rpkgs["D"].features["f1"] = Required
    /\ rpkgs["D"].features["f2"] = Required
    /\ EdgeOpt(rpkgs, "A", "D", "Normal") = Optional({}, {<<"A", "extra">>})

(***************************************************************************)
(* C8.  No redundant conditional clause: in every state of the run no      *)
(* feature or edge holds a pair (A, f) in activatedByFeatures while A is   *)
(* in its requiredByPkgs, and an activate pass for root package A leaves   *)
(* every item whose requiredByPkgs holds A as it was.                      *)
(***************************************************************************)
NoRedundantClause(o) ==
    \A rf \in o.activated_by_features : rf[1] \notin o.required_by_pkgs

NoRedundantClauses ==
    \A id \in DOMAIN rpkgs :
        /\ \A f \in DOMAIN rpkgs[id].features : NoRedundantClause(rpkgs[id].features[f])
        /\ \A k \in DOMAIN rpkgs[id].deps : NoRedundantClause(rpkgs[id].deps[k].optionality)

ActivateKeepsRequired ==
    (pc = "track" /\ pc' = "track" /\ cur # "none" /\ left' # left) =>
        \A id \in DOMAIN rpkgs :
            /\ \A f \in DOMAIN rpkgs[id].features :
                  cur \in rpkgs[id].features[f].required_by_pkgs
                      => rpkgs'[id].features[f] = rpkgs[id].features[f]
            /\ \A k \in DOMAIN rpkgs[id].deps :
                  cur \in rpkgs[id].deps[k].optionality.required_by_pkgs
                      => rpkgs'[id].deps[k] = rpkgs[id].deps[k]

C8_NoRedundantClause == []NoRedundantClauses /\ [][ActivateKeepsRequired]_vars

C8_Witness ==
    /\ pc = "track"
    /\ cur = "A"
    /\ "extra" \notin left
    /\ ReachedEdge(gateway.feat[<<"A", "extra">>], "A", <<"D", "Normal">>)
    /\ EdgeOpt(rpkgs, "A", "D", "Normal") = Optional({"A"}, {})
    /\ EdgeOpt(rpkgs, "A", "R", "Normal") = Optional({}, {<<"A", "extra">>})

Contributing(decls, key) ==
    {i \in 1..Len(decls) :
        /\ HasLib(decls[i].target)
        /\ <<decls[i].target, decls[i].kind>> = key}

Keys(decls) ==
    {<<decls[i].target, decls[i].kind>> : i \in {j \in 1..Len(decls) : HasLib(decls[j].target)}}

Restriction(rdep) ==
    [restricted |-> rdep.platforms.some, to |-> SeqRange(rdep.platforms.list)]

Reordered(decls) ==
    {[i \in 1..Len(decls) |-> decls[q[i]]] : q \in Permutations(1..Len(decls))}

C10_PlatformMerge ==
    pc = "b_built" =>
        LET deps == rpkgs["P"].deps
        IN  /\ DOMAIN deps = Keys(raw)
            /\ \A key \in DOMAIN deps :
                  LET group == Contributing(raw, key)
                  IN  IF \E i \in group : raw[i].platform = "none"
                      THEN deps[key].platforms = NoPlatforms
                      ELSE /\ deps[key].platforms.some
                           /\ Len(deps[key].platforms.list) = Cardinality(group)
                           /\ SeqRange(deps[key].platforms.list)
                                 = {raw[i].platform : i \in group}
            /\ \A other \in Reordered(raw) :
                  LET deps2 == fold_decls(EmptyDeps, with_lib(other))
                  IN  /\ DOMAIN deps2 = DOMAIN deps
                      /\ \A key \in DOMAIN deps :
                            Restriction(deps2[key]) = Restriction(deps[key])

C10_Witness ==
    /\ pc = "b_built"
    /\ raw = << Decl("D", "Normal", "unix", FALSE),
                Decl("D", "Build", "none", FALSE),
                Decl("D", "Normal", "windows", FALSE) >>
    /\ rpkgs["P"].deps[<<"D", "Normal">>].platforms = SomePlatforms(<<"unix", "windows">>)
    /\ rpkgs["P"].deps[<<"D", "Build">>].platforms = NoPlatforms

(***************************************************************************)
(* C11.  Never-needed is preserved, as claimed: a feature or               *)
(* non-development edge that no baseline pass and no feature pass reached  *)
(* (both sets empty when the Tracker finishes) still holds the empty       *)
(* Optional after simplify_optionality, and its expression is the empty    *)
(* disjunction.                                                            *)
(***************************************************************************)
FeaturePreserved(id, f) ==
    /\ rpkgs[id].features[f] = Default
    /\ plan[id].features[f] = ors(<<>>)

EdgePreserved(id, k) ==
    /\ rpkgs[id].deps[k].optionality = Default
    /\ plan[id].deps[k] = ors(<<>>)

C11_AsClaimed ==
    Rendered =>
        \A id \in DOMAIN rpkgs :
            /\ \A f \in DOMAIN rpkgs[id].features :
                  input[id].features[f] = Default => FeaturePreserved(id, f)
            /\ \A k \in DOMAIN rpkgs[id].deps :
                  (k[2] # "Development" /\ input[id].deps[k].optionality = Default)
                      => EdgePreserved(id, k)

(***************************************************************************)
(* C11, amended.  The same, provided the features and non-development      *)
(* edges of the item's package do not all hold one and the same            *)
(* Optionality after rules 1-2: otherwise rule 3 replaces them all, the    *)
(* never-needed ones included, by Required, and the expression is True.    *)
(***************************************************************************)
C11_NeverNeededPreserved ==
    Rendered =>
        \A id \in DOMAIN rpkgs :
            ~Homogeneous(id) =>
                /\ \A f \in DOMAIN rpkgs[id].features :
                      input[id].features[f] = Default => FeaturePreserved(id, f)
                /\ \A k \in DOMAIN rpkgs[id].deps :
                      (k[2] # "Development" /\ input[id].deps[k].optionality = Default)
                          => EdgePreserved(id, k)

C11_Witness ==
    /\ Rendered
    /\ EdgeOpt(input, "A", "R", "Normal") = Default
    /\ input["A"].features["extra"] = Default
    /\ EdgeOpt(input, "A", "D", "Normal") = Optional({"A"}, {})
    /\ EdgePreserved("A", <<"R", "Normal">>)
    /\ FeaturePreserved("A", "extra")

====
